---- MODULE Spec2Model ----
(***************************************************************************)
(* Model of lib/ace/incremental_search.js: the IncrementalSearch           *)
(* controller (activate, deactivate, cancelSearch,                         *)
(* highlightAndFindWithNeedle, addChar, removeChar, next, message) driving *)
(* an editor with a one-line buffer.  Positions are columns 0..Len(buffer).*)
(* Strings are TLA+ strings; JavaScript `+` is \o, substring is SubSeq.    *)
(***************************************************************************)
EXTENDS Integers, Sequences, FiniteSets, TLC

(* ---------------------------- bounds ----------------------------------- *)
\* longest needle the keyboard is allowed to build
MaxNeedle == 2
\* deepest keyboard-handler stack (host handler + isearch handlers)
MaxHandlers == 3
\* documents the editor can hold
Buffers == {"", "abab"}
\* the document of the walk-through
WalkBuffer == "abcabcabc"
\* characters typed into a document: into the empty one a character and a
\* foreign one, into the others two of their own
Chars(buf) == IF buf = "" THEN {"a", "x"} ELSE {"a", "b"}

(* ---------------------------- values ----------------------------------- *)
\* JavaScript `undefined` for a string-valued field
Undefined == "<undefined>"
\* JavaScript `undefined` for a position-valued field
NoPos == -1
\* the keyboard handlers on the editor's keyBinding stack
HostKbd == "host"
ISearchKbd == "isearch"

\* Range.fromPoints(start, end)
fromPoints(s, e) == [kind |-> "range", start |-> s, end |-> e]
\* results that are not ranges
Null == [kind |-> "null", start |-> NoPos, end |-> NoPos]
Undef == [kind |-> "undefined", start |-> NoPos, end |-> NoPos]

\* session.highlight(re): the search highlight is a compiled pattern or null
NoHighlight == [on |-> FALSE, source |-> ""]
\* the literal pattern Search compiles from options.needle into options.re
assembleRegExp(ndl) == [on |-> TRUE, source |-> ndl]

\* x || ''
OrEmpty(x) == IF x = Undefined \/ x = "" THEN "" ELSE x

SetMin(S) == CHOOSE i \in S : \A j \in S : i <= j
SetMax(S) == CHOOSE i \in S : \A j \in S : i >= j

(* ---------------------------- state ------------------------------------ *)
VARIABLES
    buffer,      \* editor.session document text (never edited here)
    cursor,      \* editor.getCursorPosition()
    handlers,    \* editor.keyBinding.$handlers, bottom first
    highlight,   \* editor.session search highlight
    status,      \* text last given to message()
    editor,      \* this.$editor is set
    startPos,    \* this.$startPos
    currentPos,  \* this.$currentPos (the anchor)
    needle,      \* this.$options.needle (the query)
    prevNeedle,  \* this.$prevNeedle
    backwards,   \* this.$options.backwards
    start,       \* this.$options.start
    call,        \* the last call made on the controller
    ret,         \* what that call returned
    cancelRet,   \* what the last cancelSearch inside that call returned
    raised,      \* that call threw a TypeError
    path,        \* branch highlightAndFindWithNeedle took in that call
    effects,     \* editor/session/renderer calls issued by that call, in order
    typed,       \* only addChar calls since the last activate
    scen         \* progress through the abcabcabc walk-through

vars == <<buffer, cursor, handlers, highlight, status,
          editor, startPos, currentPos, needle, prevNeedle, backwards, start,
          call, ret, cancelRet, raised, path, effects, typed, scen>>

\* the state as one record, so that a method is a function from record to record
St == [buffer |-> buffer, cursor |-> cursor,
       handlers |-> handlers, highlight |-> highlight,
       status |-> status, editor |-> editor, startPos |-> startPos,
       currentPos |-> currentPos, needle |-> needle, prevNeedle |-> prevNeedle,
       backwards |-> backwards, start |-> start,
       ret |-> Undef, cancelRet |-> Undef, raised |-> FALSE, path |-> "none",
       effects |-> <<>>]

Commit(t) ==
    /\ buffer' = t.buffer
    /\ cursor' = t.cursor
    /\ handlers' = t.handlers
    /\ highlight' = t.highlight
    /\ status' = t.status
    /\ editor' = t.editor
    /\ startPos' = t.startPos
    /\ currentPos' = t.currentPos
    /\ needle' = t.needle
    /\ prevNeedle' = t.prevNeedle
    /\ backwards' = t.backwards
    /\ start' = t.start
    /\ ret' = t.ret
    /\ cancelRet' = t.cancelRet
    /\ raised' = t.raised
    /\ path' = t.path
    /\ effects' = t.effects

\* a call on the editor, its session or its renderer
Eff(s, e) == [s EXCEPT !.effects = Append(@, e)]
\* TypeError: the statement dereferenced an undefined this.$editor
Throw(s) == [s EXCEPT !.raised = TRUE]

(* ------------------------ collaborators -------------------------------- *)
\* columns at which ndl occurs in buf
Occurrences(buf, ndl) ==
    {i \in 0..(Len(buf) - Len(ndl)) : SubSeq(buf, i + 1, i + Len(ndl)) = ndl}

\* Search.find with wrap = false, skipCurrent = false: the first occurrence
\* lying wholly at or after st, or the last one lying wholly at or before st
find(buf, st, ndl, bw) ==
    LET cand == IF bw
                THEN {i \in Occurrences(buf, ndl) : i + Len(ndl) <= st}
                ELSE {i \in Occurrences(buf, ndl) : i >= st}
    IN  IF cand = {} THEN Null
        ELSE IF bw THEN fromPoints(SetMax(cand), SetMax(cand) + Len(ndl))
        ELSE fromPoints(SetMin(cand), SetMin(cand) + Len(ndl))

\* keyBinding.addKeyboardHandler: push on the input-handler stack
addKeyboardHandler(hs, kb) == Append(hs, kb)

\* keyBinding.removeKeyboardHandler: take one entry of kb off the stack
RECURSIVE removeKeyboardHandler(_, _)
removeKeyboardHandler(hs, kb) ==
    IF hs = <<>> THEN <<>>
    ELSE IF hs[Len(hs)] = kb THEN SubSeq(hs, 1, Len(hs) - 1)
    ELSE Append(removeKeyboardHandler(SubSeq(hs, 1, Len(hs) - 1), kb), hs[Len(hs)])

\* number of entries of kb on the stack
Installed(hs, kb) == Cardinality({i \in 1..Len(hs) : hs[i] = kb})

(* --------------------------- methods ----------------------------------- *)
message(s, msg) == Eff([s EXCEPT !.status = msg], "message")

\* selectionFix that does not look at the emacs mark
selectionFixIgnoresMark(s, isEmpty, emacsMark) ==
    IF isEmpty THEN Eff(s, "clearSelection") ELSE s

\* isEmpty is editor.selection.isEmpty(), emacsMark is session.$emacsMark
selectionFix(s, isEmpty, emacsMark) ==
    IF isEmpty /\ ~emacsMark THEN Eff(s, "clearSelection") ELSE s

\* activate that leaves the needle of the last session in place
activateKeepsNeedle(s, bw, isEmpty, emacsMark) ==
    LET s1 == Eff([s EXCEPT !.editor = TRUE,
                            !.startPos = s.cursor,
                            !.currentPos = s.cursor], "getCursorPosition")
        s2 == [s1 EXCEPT !.needle = OrEmpty(s.prevNeedle), !.backwards = bw]
        s3 == Eff([s2 EXCEPT !.handlers = addKeyboardHandler(@, ISearchKbd)],
                  "addKeyboardHandler")
        s4 == selectionFix(s3, isEmpty, emacsMark)
        msg == (IF s4.backwards THEN "reverse-" ELSE "") \o "isearch: " \o s4.needle
    IN  [message(s4, msg) EXCEPT !.ret = Undef]

\* the editor handed in has a selection (isEmpty) and maybe an emacs mark
activate(s, bw, isEmpty, emacsMark) ==
    LET s1 == Eff([s EXCEPT !.editor = TRUE,
                            !.startPos = s.cursor,
                            !.currentPos = s.cursor], "getCursorPosition")
        s2 == [s1 EXCEPT !.needle = "", !.backwards = bw]
        s3 == Eff([s2 EXCEPT !.handlers = addKeyboardHandler(@, ISearchKbd)],
                  "addKeyboardHandler")
        s4 == selectionFix(s3, isEmpty, emacsMark)
        msg == (IF s4.backwards THEN "reverse-" ELSE "") \o "isearch: " \o s4.needle
    IN  [message(s4, msg) EXCEPT !.ret = Undef]

\* cancelSearch that moves the caret back but forgets the anchor
cancelSearchKeepsAnchor(s, reset) ==
    LET s1 == [s EXCEPT !.prevNeedle = s.needle, !.needle = ""]
        s2 == IF reset
              THEN Eff([s1 EXCEPT !.cursor = s1.startPos], "moveCursorToPosition")
              ELSE s1
        s3 == Eff(Eff([s2 EXCEPT !.highlight = NoHighlight], "highlight"),
                  "updateBackMarkers")
        r  == fromPoints(s3.currentPos, s3.currentPos)
    IN  IF ~s.editor THEN Throw(s1)
        ELSE [s3 EXCEPT !.ret = r, !.cancelRet = r]

cancelSearch(s, reset) ==
    LET s1 == [s EXCEPT !.prevNeedle = s.needle, !.needle = ""]
        s2 == IF reset
              THEN Eff([s1 EXCEPT !.cursor = s1.startPos,
                                  !.currentPos = s1.startPos],
                       "moveCursorToPosition")
              ELSE s1
        s3 == Eff(Eff([s2 EXCEPT !.highlight = NoHighlight], "highlight"),
                  "updateBackMarkers")
        r  == fromPoints(s3.currentPos, s3.currentPos)
    IN  IF ~s.editor THEN Throw(s1)
        ELSE [s3 EXCEPT !.ret = r, !.cancelRet = r]

\* deactivate that always rolls back
deactivateAlwaysResets(s, reset) ==
    LET s1 == cancelSearch(s, TRUE)
        s2 == Eff([s1 EXCEPT !.handlers = removeKeyboardHandler(@, ISearchKbd)],
                  "removeKeyboardHandler")
    IN  IF s1.raised THEN s1
        ELSE [message(s2, "") EXCEPT !.ret = Undef]

deactivate(s, reset) ==
    LET s1 == cancelSearch(s, reset)
        s2 == Eff([s1 EXCEPT !.handlers = removeKeyboardHandler(@, ISearchKbd)],
                  "removeKeyboardHandler")
    IN  IF s1.raised THEN s1
        ELSE [message(s2, "") EXCEPT !.ret = Undef]

\* a backward match used as find returned it
ResolveNoSwap(found0, bw) == found0

\* line 125: a backward match has its two ends exchanged
Resolve(found0, bw) ==
    IF bw THEN fromPoints(found0.end, found0.start) ELSE found0

\* the found branch advancing the anchor on every search
FoundAlwaysAdvances(s, moveToNext, found0) ==
    LET found == Resolve(found0, s.backwards)
        s1 == Eff([s EXCEPT !.cursor = found.end, !.currentPos = found.end],
                  "moveCursorToPosition")
        s3 == Eff(Eff([s1 EXCEPT !.highlight = assembleRegExp(s1.needle)],
                      "highlight"), "updateBackMarkers")
    IN  [s3 EXCEPT !.ret = found, !.path = "found"]

\* the found branch never advancing the anchor
FoundKeepsAnchor(s, moveToNext, found0) ==
    LET found == Resolve(found0, s.backwards)
        s1 == Eff([s EXCEPT !.cursor = found.end], "moveCursorToPosition")
        s3 == Eff(Eff([s1 EXCEPT !.highlight = assembleRegExp(s1.needle)],
                      "highlight"), "updateBackMarkers")
    IN  [s3 EXCEPT !.ret = found, !.path = "found"]

\* the found branch setting the highlight before it moves the caret
FoundHighlightsFirst(s, moveToNext, found0) ==
    LET found == Resolve(found0, s.backwards)
        s1 == Eff(Eff([s EXCEPT !.highlight = assembleRegExp(s.needle)],
                      "highlight"), "updateBackMarkers")
        s2 == Eff([s1 EXCEPT !.cursor = found.end], "moveCursorToPosition")
        s3 == IF moveToNext THEN [s2 EXCEPT !.currentPos = found.end] ELSE s2
    IN  [s3 EXCEPT !.ret = found, !.path = "found"]

\* lines 124-132: the branch taken when find returned a range
Found(s, moveToNext, found0) ==
    LET found == Resolve(found0, s.backwards)
        s1 == Eff([s EXCEPT !.cursor = found.end], "moveCursorToPosition")
        s2 == IF moveToNext THEN [s1 EXCEPT !.currentPos = found.end] ELSE s1
        s3 == Eff(Eff([s2 EXCEPT !.highlight = assembleRegExp(s2.needle)],
                      "highlight"), "updateBackMarkers")
    IN  [s3 EXCEPT !.ret = found, !.path = "found"]

\* a failed search that also drops the highlight
NotFoundClearsHighlight(s, found0) ==
    [s EXCEPT !.ret = found0, !.path = "notfound", !.highlight = NoHighlight]

\* lines 124, 133: find returned nothing, no surface call is made
NotFound(s, found0) == [s EXCEPT !.ret = found0, !.path = "notfound"]

\* a status line that never says "reverse-"
SearchMessageForwardOnly(s) ==
    LET msg1 == "isearch: " \o s.needle
    IN  IF s.ret.kind # "range" THEN msg1 \o " (not found)" ELSE msg1

\* lines 134-137: the status line of a search
SearchMessage(s) ==
    LET msg0 == IF s.backwards THEN "reverse-" ELSE ""
        msg1 == msg0 \o "isearch: " \o s.needle
    IN  IF s.ret.kind # "range" THEN msg1 \o " (not found)" ELSE msg1

\* x || '' where the callers' needleUpdateFunc reads options.needle
NeedleOf(s) == OrEmpty(s.needle)

\* updated is what needleUpdateFunc returns for options.needle || ''
highlightAndFindWithNeedle(s, moveToNext, updated) ==
    IF ~s.editor THEN [s EXCEPT !.ret = Null, !.path = "guard"]
    ELSE
    LET s1 == [s EXCEPT !.needle = OrEmpty(updated)]
        s2 == Eff([s1 EXCEPT !.start = s1.currentPos], "find")
        found0 == find(s2.buffer, s2.start, s2.needle, s2.backwards)
        s3 == IF found0.kind = "range" THEN Found(s2, moveToNext, found0)
              ELSE NotFound(s2, found0)
    IN  IF Len(s1.needle) = 0
        THEN [cancelSearch(s1, TRUE) EXCEPT !.path = "cancel"]
        ELSE message(s3, SearchMessage(s3))

addChar(s, c) ==
    highlightAndFindWithNeedle(s, FALSE, NeedleOf(s) \o c)

\* removeChar that returns at once when there is nothing to remove
removeCharSkipsEmpty(s) ==
    IF Len(NeedleOf(s)) = 0 THEN [s EXCEPT !.ret = Null, !.path = "guard"]
    ELSE highlightAndFindWithNeedle(s, FALSE,
             SubSeq(NeedleOf(s), 1, Len(NeedleOf(s)) - 1))

removeChar(s) ==
    highlightAndFindWithNeedle(s, FALSE,
        IF Len(NeedleOf(s)) > 0
        THEN SubSeq(NeedleOf(s), 1, Len(NeedleOf(s)) - 1)
        ELSE NeedleOf(s))

\* next that searches from the old anchor instead of the caret
nextKeepsAnchor(s, bw, use) ==
    LET s1 == [s EXCEPT !.backwards = bw]
    IN  IF ~s.editor THEN Throw(s1)
        ELSE highlightAndFindWithNeedle(s1, TRUE,
                 IF use /\ Len(NeedleOf(s1)) = 0
                 THEN OrEmpty(s1.prevNeedle) ELSE NeedleOf(s1))

\* next that never falls back on the previous needle
nextIgnoresPrev(s, bw, use) ==
    LET s1 == [s EXCEPT !.backwards = bw]
        s2 == Eff([s1 EXCEPT !.currentPos = s1.cursor], "getCursorPosition")
    IN  IF ~s.editor THEN Throw(s1)
        ELSE highlightAndFindWithNeedle(s2, TRUE, NeedleOf(s2))

\* options = {backwards: bw, useCurrentOrPrevSearch: use}
next(s, bw, use) ==
    LET s1 == [s EXCEPT !.backwards = bw]
        s2 == Eff([s1 EXCEPT !.currentPos = s1.cursor], "getCursorPosition")
    IN  IF ~s.editor THEN Throw(s1)
        ELSE highlightAndFindWithNeedle(s2, TRUE,
                 IF use /\ Len(NeedleOf(s2)) = 0
                 THEN OrEmpty(s2.prevNeedle) ELSE NeedleOf(s2))

(* ------------------------- the walk-through ---------------------------- *)
\* buffer "abcabcabc": activate forward at 0, addChar('a'), addChar('b'),
\* next(), removeChar(), deactivate(true); scen counts the calls made so far
ScenStep(c) ==
    IF c.op = "activate" /\ ~c.backwards /\ buffer = WalkBuffer /\ cursor = 0 THEN 1
    ELSE IF scen = 1 /\ c.op = "addChar" /\ c.c = "a" THEN 2
    ELSE IF scen = 2 /\ c.op = "addChar" /\ c.c = "b" THEN 3
    ELSE IF scen = 3 /\ c.op = "next" /\ ~c.backwards /\ ~c.use THEN 4
    ELSE IF scen = 4 /\ c.op = "removeChar" THEN 5
    ELSE IF scen = 5 /\ c.op = "deactivate" /\ c.reset THEN 6
    ELSE 0

Call(op, c, reset, bw, use) ==
    [op |-> op, c |-> c, reset |-> reset, backwards |-> bw, use |-> use,
     isEmpty |-> FALSE, emacsMark |-> FALSE]

\* activate(editor, bw) with the selection state of the editor handed in
CallActivate(bw, isEmpty, emacsMark) ==
    [Call("activate", "", FALSE, bw, FALSE)
        EXCEPT !.isEmpty = isEmpty, !.emacsMark = emacsMark]

\* what is kept of a call: the method and its flags
Observe(c) ==
    /\ call' = [op |-> c.op, reset |-> c.reset, use |-> c.use,
                backwards |-> c.backwards, isEmpty |-> c.isEmpty,
                emacsMark |-> c.emacsMark]
    /\ typed' = (c.op = "activate" \/ (typed /\ c.op = "addChar"))
    /\ scen' = ScenStep(c)

(* --------------------------- actions ----------------------------------- *)
\* new IncrementalSearch() beside an editor nobody has searched in yet
Fresh ==
    /\ handlers = <<HostKbd>>
    /\ highlight = NoHighlight
    /\ status = ""
    /\ editor = FALSE
    /\ startPos = NoPos
    /\ currentPos = NoPos
    /\ needle = Undefined
    /\ prevNeedle = Undefined
    /\ backwards = FALSE
    /\ start = NoPos
    /\ call = [op |-> "new", reset |-> FALSE, use |-> FALSE,
               backwards |-> FALSE, isEmpty |-> FALSE, emacsMark |-> FALSE]
    /\ ret = Undef
    /\ cancelRet = Undef
    /\ raised = FALSE
    /\ path = "none"
    /\ effects = <<>>
    /\ typed = FALSE
    /\ scen = 0

Init ==
    /\ buffer \in Buffers
    /\ cursor \in 0..Len(buffer)
    /\ Fresh

\* the walk-through starts with the caret at the top of its document
InitWalk ==
    /\ buffer = WalkBuffer
    /\ cursor = 0
    /\ Fresh

Activate(bw, isEmpty, emacsMark) ==
    /\ Len(handlers) < MaxHandlers
    /\ Commit(activate(St, bw, isEmpty, emacsMark))
    /\ Observe(CallActivate(bw, isEmpty, emacsMark))

Deactivate(reset) ==
    /\ Commit(deactivate(St, reset))
    /\ Observe(Call("deactivate", "", reset, FALSE, FALSE))

CancelSearch(reset) ==
    /\ Commit(cancelSearch(St, reset))
    /\ Observe(Call("cancelSearch", "", reset, FALSE, FALSE))

AddChar(c) ==
    /\ Len(OrEmpty(needle)) < MaxNeedle
    /\ Commit(addChar(St, c))
    /\ Observe(Call("addChar", c, FALSE, FALSE, FALSE))

RemoveChar ==
    /\ Commit(removeChar(St))
    /\ Observe(Call("removeChar", "", FALSE, FALSE, FALSE))

NextMatch(bw, use) ==
    /\ Commit(next(St, bw, use))
    /\ Observe(Call("next", "", FALSE, bw, use))

Next ==
    \/ \E bw \in BOOLEAN, isEmpty \in BOOLEAN, emacsMark \in BOOLEAN :
          Activate(bw, isEmpty, emacsMark)
    \/ \E reset \in BOOLEAN : Deactivate(reset)
    \/ \E reset \in BOOLEAN : CancelSearch(reset)
    \/ \E c \in Chars(buffer) : AddChar(c)
    \/ RemoveChar
    \/ \E bw \in BOOLEAN, use \in BOOLEAN : NextMatch(bw, use)

Spec == Init /\ [][Next]_vars

SpecWalk == InitWalk /\ [][Next]_vars

TypeOK ==
    /\ buffer \in Buffers \cup {WalkBuffer}
    /\ cursor \in 0..Len(buffer)
    /\ handlers # <<>>
    /\ Len(OrEmpty(needle)) <= MaxNeedle
    /\ editor \in BOOLEAN

(* --------------------------- properties -------------------------------- *)
\* a session is active while the controller's handler is on the stack
Active == Installed(handlers, ISearchKbd) > 0
\* the calls that run highlightAndFindWithNeedle
SearchOps == {"addChar", "removeChar", "next"}
\* the status line of a search for ndl in direction bw
Isearch(bw, ndl) == (IF bw THEN "reverse-" ELSE "") \o "isearch: " \o ndl
\* the occurrences of ndl a search from st can reach with wrap off
Reachable(buf, st, ndl, bw) ==
    IF bw THEN {i \in Occurrences(buf, ndl) : i + Len(ndl) <= st}
    ELSE {i \in Occurrences(buf, ndl) : i >= st}
\* the last call ran cancelSearch with reset = true
ResetRan ==
    \/ call.op \in {"cancelSearch", "deactivate"} /\ call.reset
    \/ call.op \in SearchOps /\ path = "cancel"

\* C1: addChar, removeChar, next or deactivate called while no session is
\* active returns no range, raises nothing, and leaves query, previousQuery,
\* anchor, cursor, highlight, status text and the handler stack as they were.
C1_NoSessionNoOp ==
    [][(~Active /\ call'.op \in SearchOps \cup {"deactivate"})
        => /\ ~raised'
           /\ ret'.kind # "range"
           /\ UNCHANGED <<needle, prevNeedle, currentPos, cursor, highlight,
                          status, handlers>>]_vars

\* C2: in an active session, an addChar or removeChar whose new non-empty
\* query has no match leaves the cursor, the anchor and the highlight as they
\* were before the call (and start position, previous query, direction and
\* handler stack with them).
C2_FailedSearchFrame ==
    [][(/\ Active
        /\ call'.op \in {"addChar", "removeChar"}
        /\ needle' # ""
        /\ Reachable(buffer, currentPos, needle', backwards) = {})
        => /\ cursor' = cursor
           /\ currentPos' = currentPos
           /\ highlight' = highlight
           /\ UNCHANGED <<startPos, prevNeedle, backwards, handlers>>
           /\ needle' # needle
           /\ status' = Isearch(backwards, needle') \o " (not found)"]_vars

\* C2 witness: a failed addChar has left the caret on the earlier match and
\* the earlier match's highlight in place
C2_Witness ==
    /\ Active
    /\ call.op = "addChar"
    /\ path = "notfound"
    /\ highlight.on
    /\ highlight.source # needle
    /\ cursor # startPos

\* C3 as stated: after activate and the addChar calls that build a non-empty
\* query occurring anywhere in the buffer, the search has matched, the cursor
\* is at the match's resolved end and the status is the query with no
\* "(not found)".
C3_AnyOccurrenceFound ==
    (typed /\ needle # "" /\ Occurrences(buffer, needle) # {})
    => /\ ret.kind = "range"
       /\ cursor = ret.end
       /\ status = Isearch(backwards, needle)

\* C3 amended: after activate and the addChar calls that build a non-empty
\* query with an occurrence lying at or after the activation position (forward)
\* or wholly at or before it (backward), the cursor is at the far end of the
\* nearest such occurrence and the status is the query with no "(not found)".
C3_TypedQueryFound ==
    LET cand == Reachable(buffer, startPos, needle, backwards)
    IN  (typed /\ needle # "" /\ cand # {})
        => /\ cursor = IF backwards THEN SetMax(cand)
                       ELSE SetMin(cand) + Len(needle)
           /\ ret.kind = "range"
           /\ cursor = ret.end
           /\ status = Isearch(backwards, needle)

\* C3 witness: a two-character query typed backward has been found
C3_Witness ==
    /\ typed
    /\ Len(needle) = 2
    /\ backwards
    /\ path = "found"
    /\ cursor < startPos

\* C4: once an editor is attached, cancelSearch(true), called directly, by
\* deactivate(true) or on the empty-candidate path of addChar, removeChar or
\* next, leaves cursor = startPos and anchor = startPos and returns the
\* zero-length range at startPos.
C4_ResetRestoresStart ==
    (editor /\ ResetRan)
    => /\ ~raised
       /\ cursor = startPos
       /\ currentPos = startPos
       /\ cancelRet = fromPoints(startPos, startPos)
       /\ (call.op # "deactivate" => ret = cancelRet)

\* C4 witness: deactivate(true) has rolled back a session whose query was live
C4_Witness ==
    /\ editor
    /\ call.op = "deactivate"
    /\ call.reset
    /\ Len(prevNeedle) = 2
    /\ cursor = startPos
    /\ start # startPos

\* C5: from any active state and for either reset, one deactivate takes the
\* controller's handler off the stack exactly once, leaves none of its
\* handlers installed and sets the status text to "".
C5_DeactivateRemovesOverlay ==
    [][(Active /\ call'.op = "deactivate")
        => /\ Installed(handlers', ISearchKbd) = Installed(handlers, ISearchKbd) - 1
           /\ Installed(handlers', ISearchKbd) = 0
           /\ status' = ""]_vars

\* C6: in an active session deactivate(false) leaves the cursor where it is,
\* which is the end of the match when the last call was a successful search,
\* and deactivate(true) moves it to startPos; startPos is what the last
\* activate read from the cursor, whatever was called in between.
C6_ConfirmKeepsAbortRestores ==
    [][/\ (Active /\ call'.op = "deactivate" /\ ~call'.reset)
           => /\ cursor' = cursor
              /\ (path = "found" => cursor' = ret.end)
       /\ (Active /\ call'.op = "deactivate" /\ call'.reset)
           => cursor' = startPos
       /\ (call'.op = "activate" => startPos' = cursor)
       /\ (call'.op # "activate" => startPos' = startPos)]_vars

\* C6 witness: a confirm has left the caret on a match, away from startPos
C6_Witness ==
    /\ editor
    /\ call.op = "deactivate"
    /\ ~call.reset
    /\ ~Active
    /\ cursor # startPos
    /\ prevNeedle # ""

\* C7 as stated: on "abcabcabc" from 0, addChar('a') gives [0,1) cursor 1
\* anchor 0; addChar('b') gives [0,2) cursor 2 anchor 0; next() searches from
\* 2 and gives [3,5) cursor 5; removeChar() searches "a" from anchor 2 and
\* gives [3,4) cursor 4; deactivate(true) puts the cursor at 0.
C7_WalkAsStated ==
    /\ scen = 2 => ret = fromPoints(0, 1) /\ cursor = 1 /\ currentPos = 0
    /\ scen = 3 => ret = fromPoints(0, 2) /\ cursor = 2 /\ currentPos = 0
    /\ scen = 4 => ret = fromPoints(3, 5) /\ cursor = 5 /\ start = 2
    /\ scen = 5 => /\ needle = "a"
                   /\ start = 2
                   /\ ret = fromPoints(3, 4)
                   /\ cursor = 4
    /\ scen = 6 => cursor = 0

\* C7 amended: the same walk, but next() leaves the anchor at 5, so that
\* removeChar() searches "a" from 5 and gives [6,7) with the cursor at 7.
C7_Walk ==
    /\ scen = 2 => ret = fromPoints(0, 1) /\ cursor = 1 /\ currentPos = 0
    /\ scen = 3 => ret = fromPoints(0, 2) /\ cursor = 2 /\ currentPos = 0
    /\ scen = 4 => /\ ret = fromPoints(3, 5)
                   /\ cursor = 5
                   /\ start = 2
                   /\ currentPos = 5
    /\ scen = 5 => /\ needle = "a"
                   /\ start = 5
                   /\ ret = fromPoints(6, 7)
                   /\ cursor = 7
                   /\ currentPos = 5
    /\ scen = 6 => cursor = 0 /\ currentPos = 0

\* C7 witness: the walk has been made to its end
C7_Witness == scen = 6 /\ cursor = 0 /\ prevNeedle = "a"

\* C8: after an addChar, removeChar or next of an active session that leaves a
\* non-empty query the status is "reverse-" (backward only), "isearch: ", the
\* query, and " (not found)" exactly when the search from options.start has no
\* match; on the empty buffer activate, addChar('x') gives
\* "isearch: x (not found)" and the cursor where it was.
C8_StatusText ==
    /\ (Active /\ call.op \in SearchOps /\ needle # "")
       => status = (IF backwards THEN "reverse-" ELSE "") \o "isearch: "
                   \o needle
                   \o (IF Reachable(buffer, start, needle, backwards) = {}
                       THEN " (not found)" ELSE "")
    /\ (buffer = "" /\ typed /\ ~backwards /\ needle = "x")
       => status = "isearch: x (not found)" /\ cursor = startPos

\* C8 witness: on the empty buffer activate, addChar('x') has failed and says so
C8_Witness ==
    /\ Active
    /\ buffer = ""
    /\ typed
    /\ call.op = "addChar"
    /\ needle = "x"
    /\ path = "notfound"
    /\ status = "isearch: x (not found)"

\* C9: in an active session addChar and removeChar leave the anchor alone
\* unless the query becomes empty, and the anchor changes only in next, or to
\* startPos in a cancelSearch with reset (the empty-query path included);
\* activate, which begins a session, reads it from the cursor.
C9_AnchorFrame ==
    [][/\ (Active /\ call'.op \in {"addChar", "removeChar"} /\ needle' # "")
           => currentPos' = currentPos
       /\ (Active /\ currentPos' # currentPos /\ call'.op # "activate")
           => \/ call'.op = "next"
              \/ /\ currentPos' = startPos
                 /\ \/ call'.op \in {"cancelSearch", "deactivate"} /\ call'.reset
                    \/ call'.op \in SearchOps /\ path' = "cancel"]_vars

\* C9 witness: a typed query has matched and the anchor stayed behind the caret
C9_Witness ==
    /\ Active
    /\ call.op \in {"addChar", "removeChar"}
    /\ path = "found"
    /\ currentPos = startPos
    /\ cursor # currentPos

\* C10 as stated: after a successful backward search for Q from P, a forward
\* search for Q from the resulting cursor leaves the cursor at a position >= P.
C10_RoundTripReachesP ==
    [][(/\ Active
        /\ call.op \in SearchOps /\ backwards /\ path = "found"
        /\ call'.op = "next" /\ ~backwards' /\ path' = "found")
        => cursor' >= start]_vars

\* C10 amended: after a successful backward search for Q from P, a forward
\* search for Q from the resulting cursor finds the same occurrence and leaves
\* the cursor at its right end, the resulting cursor + |Q|, a position <= P.
C10_RoundTripSameMatch ==
    [][(/\ Active
        /\ call.op \in SearchOps /\ backwards /\ path = "found"
        /\ call'.op = "next" /\ ~backwards')
        => /\ path' = "found"
           /\ needle' = needle
           /\ ret' = fromPoints(ret.end, ret.start)
           /\ cursor' = cursor + Len(needle)
           /\ cursor' <= start]_vars

\* C10 witness: a backward search from P has matched strictly before P
C10_Witness ==
    /\ Active
    /\ call.op \in SearchOps
    /\ backwards
    /\ path = "found"
    /\ cursor + Len(needle) < start

\* the controller's fields and the editor's, without the record of the call
Core(s) == <<s.cursor, s.handlers, s.highlight, s.status, s.editor,
             s.startPos, s.currentPos, s.needle, s.prevNeedle, s.backwards,
             s.start>>

\* C11 as stated: removeChar in an active session whose query is already
\* empty raises nothing, takes the empty-query reset path, leaves the query
\* empty and the whole controller state, previousQuery included, as it was.
C11_RemoveOnEmptyNoOp ==
    [][(Active /\ needle = "" /\ call'.op = "removeChar")
        => /\ ~raised'
           /\ path' = "cancel"
           /\ needle' = ""
           /\ OrEmpty(prevNeedle') = OrEmpty(prevNeedle)
           /\ UNCHANGED <<cursor, handlers, highlight, status, editor,
                          startPos, currentPos, backwards, start>>]_vars

\* C11 amended: removeChar in an active session whose query is already empty
\* raises nothing, takes the empty-query reset path and leaves the query
\* empty; it sets previousQuery to "", puts cursor and anchor at startPos and
\* clears the highlight, and a further removeChar changes nothing more.
C11_RemoveOnEmptyIdempotent ==
    [][(Active /\ needle = "" /\ call'.op = "removeChar")
        => /\ ~raised'
           /\ path' = "cancel"
           /\ needle' = ""
           /\ prevNeedle' = ""
           /\ cursor' = startPos
           /\ currentPos' = startPos
           /\ highlight' = NoHighlight
           /\ UNCHANGED <<handlers, status, editor, startPos, backwards, start>>
           /\ Core(removeChar(St')) = Core(St')
           /\ removeChar(St').path = "cancel"]_vars

\* C11 witness: removeChar has run the reset path in a session of a
\* controller that has never searched, so its query was empty
C11_Witness ==
    /\ Active
    /\ call.op = "removeChar"
    /\ path = "cancel"
    /\ needle = ""
    /\ start = NoPos

\* the last call issued the editor call e
Issued(effs, e) == \E i \in 1..Len(effs) : effs[i] = e

\* C12: the controller's handler is never on the stack twice, and an activate
\* in an active session either changes nothing or first ends the live session
\* (its query stashed in previousQuery, its highlight cleared) before it
\* overwrites startPos and the anchor.
C12_OneSession ==
    [][/\ Installed(handlers', ISearchKbd) <= 1
       /\ (Active /\ call'.op = "activate")
           => \/ UNCHANGED <<cursor, handlers, highlight, status, startPos,
                             currentPos, needle, prevNeedle, backwards>>
              \/ /\ prevNeedle' = needle
                 /\ highlight' = NoHighlight]_vars

\* C13: activate(editor, bw) with no session active sets startPos and the
\* anchor to the cursor, the query to "", the direction to bw, pushes the
\* handler on top of the stack, says "isearch: " or "reverse-isearch: ", calls
\* neither find nor moveCursorToPosition and leaves the cursor where it is.
C13_ActivateFromIdle ==
    [][(~Active /\ call'.op = "activate")
        => /\ startPos' = cursor
           /\ currentPos' = cursor
           /\ cursor' = cursor
           /\ needle' = ""
           /\ backwards' = call'.backwards
           /\ handlers' = Append(handlers, ISearchKbd)
           /\ status' = IF call'.backwards THEN "reverse-isearch: "
                        ELSE "isearch: "
           /\ ~Issued(effects', "find")
           /\ ~Issued(effects', "moveCursorToPosition")
           /\ ~raised'
           /\ UNCHANGED <<prevNeedle, highlight, start, buffer>>]_vars

\* C13 witness: a backward activation after an earlier session, whose query
\* is still held as previousQuery
C13_Witness ==
    /\ call.op = "activate"
    /\ call.backwards
    /\ Installed(handlers, ISearchKbd) = 1
    /\ Len(prevNeedle) = 2
    /\ needle = ""
    /\ status = "reverse-isearch: "

\* C14 as stated: activate calls clearSelection exactly when the editor
\* reports a non-empty selection and no emacs mark is set.
C14_ClearsNonEmptySelection ==
    call.op = "activate"
    => (Issued(effects, "clearSelection") <=> (~call.isEmpty /\ ~call.emacsMark))

\* C14 amended: activate calls clearSelection exactly when the editor reports
\* an empty selection and no emacs mark is set; a non-empty selection, and any
\* selection under an emacs mark, is left alone.
C14_ClearsEmptySelection ==
    call.op = "activate"
    => (Issued(effects, "clearSelection") <=> (call.isEmpty /\ ~call.emacsMark))

\* C14 witness: activate has cleared an empty selection
C14_Witness ==
    /\ call.op = "activate"
    /\ call.isEmpty
    /\ ~call.emacsMark
    /\ Issued(effects, "clearSelection")

\* C15: next(opts) sets the direction to opts.backwards and searches from the
\* cursor; on a match the anchor and the cursor are both the match end, and a
\* second next with the same query and direction that matches returns another
\* range.
C15_NextWalks ==
    [][(editor /\ call'.op = "next")
        => /\ backwards' = call'.backwards
           /\ (path' \in {"found", "notfound"} => start' = cursor)
           /\ (path' = "found"
               => /\ currentPos' = ret'.end
                  /\ cursor' = ret'.end
                  /\ LET again == next(St', backwards', FALSE)
                     IN  again.path = "found"
                         => /\ again.needle = needle'
                            /\ again.ret # ret'
                            /\ IF backwards' THEN again.ret.start <= ret'.end
                               ELSE again.ret.start >= ret'.end)]_vars

\* C15 witness: next has matched and the same next would match once more
C15_Witness ==
    /\ Active
    /\ call.op = "next"
    /\ path = "found"
    /\ next(St, backwards, FALSE).path = "found"

\* C16: after a successful search the cursor is at the match's right end when
\* the direction is forward and at its left end when it is backward, and the
\* range returned ends at the cursor (its start is the other end of an
\* occurrence of the query).
C16_CursorAtMatchEnd ==
    (editor /\ call.op \in SearchOps /\ path = "found")
    => /\ ret.kind = "range"
       /\ cursor = ret.end
       /\ IF backwards
          THEN /\ ret.start = cursor + Len(needle)
               /\ cursor \in Occurrences(buffer, needle)
          ELSE /\ ret.start = cursor - Len(needle)
               /\ ret.start \in Occurrences(buffer, needle)

\* C16 witness: a backward search has put the cursor on the left end of a
\* two-character match
C16_Witness ==
    /\ editor
    /\ call.op \in SearchOps
    /\ path = "found"
    /\ backwards
    /\ Len(needle) = 2
    /\ ret = fromPoints(cursor + 2, cursor)

\* C17: deactivate leaves the session's query in previousQuery and activate
\* keeps it; next on an empty query then searches for previousQuery when
\* useCurrentOrPrevSearch is set and previousQuery is not empty, and takes the
\* empty-query reset path without searching otherwise.
C17_ReusePreviousQuery ==
    [][/\ (Active /\ call'.op = "deactivate") => prevNeedle' = needle
       /\ (editor /\ call'.op = "activate")
           => prevNeedle' = prevNeedle /\ needle' = ""
       /\ (Active /\ needle = "" /\ call'.op = "next")
           => IF call'.use /\ OrEmpty(prevNeedle) # ""
              THEN /\ needle' = prevNeedle
                   /\ prevNeedle' = prevNeedle
                   /\ Issued(effects', "find")
                   /\ path' = IF Reachable(buffer, cursor, prevNeedle,
                                           call'.backwards) = {}
                              THEN "notfound" ELSE "found"
              ELSE /\ path' = "cancel"
                   /\ needle' = ""
                   /\ ~Issued(effects', "find")]_vars

\* C17 witness: next has searched for the previous session's query and found it
C17_Witness ==
    /\ Active
    /\ call.op = "next"
    /\ call.use
    /\ path = "found"
    /\ Len(needle) = 2
    /\ needle = prevNeedle

\* C18: when addChar, removeChar or next comes to an empty candidate, the
\* reset leaves in previousQuery the query held just before the call
\* (removing the last character of "a" leaves previousQuery = "a").
C18_PreviousQueryKept ==
    [][(Active /\ call'.op \in SearchOps /\ path' = "cancel")
        => OrEmpty(prevNeedle') = OrEmpty(needle)]_vars

\* the editor calls a search issued after it called find
AfterFind(effs) ==
    LET i == CHOOSE k \in 1..Len(effs) : effs[k] = "find"
    IN  SubSeq(effs, i + 1, Len(effs))

\* C19: a search that matches moves the cursor, then highlights the query's
\* pattern, then redraws the highlight layer, then emits the status, in that
\* order; a search that fails only emits the status.
C19_EffectOrder ==
    /\ (editor /\ call.op \in SearchOps /\ path = "found")
       => /\ AfterFind(effects) = <<"moveCursorToPosition", "highlight",
                                    "updateBackMarkers", "message">>
          /\ highlight = assembleRegExp(needle)
    /\ (editor /\ call.op \in SearchOps /\ path = "notfound")
       => /\ AfterFind(effects) = <<"message">>
          /\ ~Issued(effects, "highlight")
          /\ ~Issued(effects, "updateBackMarkers")

\* C19 witness: next has matched and issued its editor calls in order
C19_Witness ==
    /\ call.op = "next"
    /\ path = "found"
    /\ effects = <<"getCursorPosition", "find", "moveCursorToPosition",
                   "highlight", "updateBackMarkers", "message">>

\* C20: after addChar, removeChar or next in an active session the status is
\* "reverse-" (backward only), "isearch: " and the current query, with or
\* without " (not found)".
C20_StatusMatchesSession ==
    (Active /\ call.op \in SearchOps)
    => \/ status = Isearch(backwards, needle)
       \/ status = Isearch(backwards, needle) \o " (not found)"
====
